---- MODULE Spec2Model ----
(***************************************************************************)
(* Model of the Transformer notebook                                       *)
(*   src/Deep Learning/Attention_is_All_You_Need/main.ipynb                *)
(*                                                                         *)
(* Tensors are records [shape, data]; data is a nested sequence, so the    *)
(* 0-based index p of the code is position p+1 of the model.  Real numbers *)
(* are symbolic terms: sin and cos are uninterpreted except at angle 0,    *)
(* and every term carries its float class ("finite", "inf", "nan").        *)
(***************************************************************************)
EXTENDS Integers, Sequences, FiniteSets, TLC

VARIABLES
    pc,         \* position of the program
    d_model,    \* PositionalEncoding(d_model, max_len): first argument
    max_len,    \* second argument
    ntoken,     \* TransformerModel(ntoken, ...): vocabulary size
    pe,         \* the registered buffer self.pe (NoTensor before construction)
    err,        \* the exception a call raised ("none" when it returned)
    x,          \* the argument of the last PositionalEncoding.forward call
    y,          \* what that call returned
    call,       \* the TransformerModel.forward call just made (None when the last
                \* call was a direct pos_encoder call): arguments, stages, result
    output,     \* the Python variable output
    src,        \* the Python variable src (token tensor)
    src_mask,   \* the Python variable src_mask
    training,   \* nn.Module.training of the model
    params,     \* the value of every tensor the optimizer updates
    grads,      \* "none" after zero_grad, "set" after backward
    epoch,      \* loop variable of the outer loop
    batch,      \* loop variable of the inner loop
    loss,       \* the Python variable loss
    printed,    \* the lines printed so far
    steps,      \* number of optimizer.step() calls so far
    trace,      \* the operations of the current batch iteration, in order
    first,      \* the first TransformerModel.forward call: arguments and result
    peFirst,    \* the first PositionalEncoding.forward call: argument and result
    Q,          \* attention: query matrix
    K,          \* attention: key matrix
    V,          \* attention: value matrix
    mask,       \* attention: boolean mask, TRUE marks a disallowed pair
    fill,       \* attention: what a masked score is set to ("neg_inf" or "sentinel")
    weights,    \* attention: the weight matrix returned
    attn        \* attention: the output matrix returned

peVars    == <<pc, d_model, max_len, ntoken, pe, err, x, y, call, output>>
trainVars == <<src, src_mask, training, params, grads, epoch, batch, loss, printed, steps, trace,
               first, peFirst>>
attnVars  == <<Q, K, V, mask, fill, weights, attn>>
vars      == <<peVars, trainVars, attnVars>>

----------------------------------------------------------------------------
(* Bounds of the explored inputs *)
MaxDModel == 4
MaxLen    == 3
MaxTok    == 2
MaxSeq    == 3
MaxBatch  == 2
MaxRows   == 2
MaxCols   == 2
MaxDk     == 1

NoTensor == [shape |-> <<>>, data |-> <<>>]
\* Python's None, as a record so that it compares with every record
None     == [none |-> TRUE]

Min(a, b) == IF a <= b THEN a ELSE b

----------------------------------------------------------------------------
(* Symbolic float arithmetic used by PositionalEncoding.__init__ *)

\* math.log(10000.0), in thousandths
Ln10000Milli == 9210

\* torch.exp on float32: overflows to inf above about 88.72
ExpClass(argMilli) == IF argMilli > 88722 THEN "inf" ELSE "finite"

\* torch.arange(0, d_model, 2): the values 0, 2, 4, ... below d_model
Arange2(n) == [j \in 1..(IF n > 0 THEN (n + 1) \div 2 ELSE 0) |-> 2 * (j - 1)]

\* the exponents k of a frequency vector, each giving 10000^(-k/d)
Frequencies(ks, d) ==
    [j \in 1..Len(ks) |->
        [k |-> ks[j], d |-> d, cls |-> ExpClass(-((ks[j] * Ln10000Milli) \div d))]]

\* a frequency vector built from torch.arange(0, d_model // 2): exponents 0, 1, 2, ...
DivTermUnitStep(d) == Frequencies([j \in 1..Len(Arange2(d)) |-> j - 1], d)

\* torch.exp(torch.arange(0, d_model, 2).float() * (-math.log(10000.0) / d_model))
\* element j is 10000^(-k/d) with k = Arange2(d)[j]
DivTerm(d) == Frequencies(Arange2(d), d)

\* torch.arange(0, max_len, dtype=torch.float).unsqueeze(1): shape (max_len, 1)
Position(n) == [shape |-> <<n, 1>>, data |-> [p \in 1..n |-> <<p - 1>>]]

\* one element of position * div_term
Angle(p, dv) ==
    [pos |-> p, k |-> dv.k, d |-> dv.d,
     cls |-> IF dv.cls = "finite" THEN "finite"
             ELSE IF p = 0 THEN "nan" ELSE "inf"]

\* position * div_term: (max_len, 1) * (w,) broadcasts to (max_len, w)
PosTimesDiv(position, div) ==
    [shape |-> <<position.shape[1], Len(div)>>,
     data  |-> [p \in 1..position.shape[1] |->
                  [j \in 1..Len(div) |-> Angle(position.data[p][1], div[j])]]]

TrigClass(a) == IF a.cls = "finite" THEN "finite" ELSE "nan"

\* torch.sin / torch.cos applied elementwise
Trig(fn, m) ==
    [shape |-> m.shape,
     data  |-> [p \in 1..m.shape[1] |->
                  [j \in 1..m.shape[2] |->
                     [fn |-> fn, pos |-> m.data[p][j].pos, k |-> m.data[p][j].k,
                      d |-> m.data[p][j].d, cls |-> TrigClass(m.data[p][j])]]]]

\* torch.zeros(max_len, d_model)
Zeros(n, m) ==
    [shape |-> <<n, m>>,
     data  |-> [p \in 1..n |-> [c \in 1..m |-> [fn |-> "zero", cls |-> "finite"]]]]

\* number of columns of t[:, start::2]
StrideCols(m, start) == IF m > start THEN (m - start + 1) \div 2 ELSE 0

\* t[:, start::2] = s raises unless s has as many columns as the slice, or one
\* column (which is expanded, also to an empty slice)
CanAssign(t, start, s) ==
    \/ s.shape[2] = StrideCols(t.shape[2], start)
    \/ s.shape[2] = 1

\* t[:, start::2] = s
StrideAssign(t, start, s) ==
    [shape |-> t.shape,
     data  |-> [p \in 1..t.shape[1] |->
                  [c \in 1..t.shape[2] |->
                     IF c - 1 >= start /\ (c - 1 - start) % 2 = 0
                     THEN s.data[p][IF s.shape[2] = 1 THEN 1
                                    ELSE ((c - 1 - start) \div 2) + 1]
                     ELSE t.data[p][c]]]]

\* t.unsqueeze(0): (n, m) becomes (1, n, m)
Unsqueeze0(t) == [shape |-> <<1, t.shape[1], t.shape[2]>>, data |-> <<t.data>>]

\* t.transpose(0, 1) of a 3-D tensor
Transpose01(t) ==
    [shape |-> <<t.shape[2], t.shape[1], t.shape[3]>>,
     data  |-> [i \in 1..t.shape[2] |-> [j \in 1..t.shape[1] |-> t.data[j][i]]]]

\* torch.cos written as torch.sin
CosColumnsAsSin(angles) == Trig("sin", angles)

\* torch.sin(position * div_term)
SinColumns(angles) == Trig("sin", angles)

\* torch.cos(position * div_term)
CosColumns(angles) == Trig("cos", angles)

\* the buffer registered without the transpose: shape (1, max_len, d_model)
RegisteredNoTranspose(t) == Unsqueeze0(t)

\* pe.unsqueeze(0).transpose(0, 1), registered as the buffer: (max_len, 1, d_model)
Registered(t) == Transpose01(Unsqueeze0(t))

\* the exact value of a term where it is known: sin(0) = 0, cos(0) = 1
Value(e) ==
    IF e.fn = "zero" THEN 0
    ELSE IF e.fn = "sin" /\ e.cls = "finite" /\ e.pos = 0 THEN 0
    ELSE IF e.fn = "cos" /\ e.cls = "finite" /\ e.pos = 0 THEN 1
    ELSE "symbolic"

Raise(e)  == [ok |-> FALSE, err |-> e, val |-> NoTensor]
Return(v) == [ok |-> TRUE, err |-> "none", val |-> v]

\* PositionalEncoding.__init__(d_model = d, max_len = n): the buffer it registers,
\* or the exception one of its statements raises
PositionalEncodingInit(d, n) ==
    IF n < 0 \/ d < 0 THEN Raise("RuntimeError")          \* torch.zeros, negative size
    ELSE IF d = 0 THEN Raise("ZeroDivisionError")         \* -math.log(10000.0) / 0
    ELSE
      LET pe0    == Zeros(n, d)
          angles == PosTimesDiv(Position(n), DivTerm(d))
          s      == SinColumns(angles)
          c      == CosColumns(angles)
          pe1    == StrideAssign(pe0, 0, s)
      IN  IF ~CanAssign(pe0, 0, s) THEN Raise("RuntimeError")
          ELSE IF ~CanAssign(pe1, 1, c) THEN Raise("RuntimeError")
          ELSE Return(Registered(StrideAssign(pe1, 1, c)))

----------------------------------------------------------------------------
(* PositionalEncoding.forward *)

\* t[:n, :] of a 3-D tensor
Slice0(t, n) ==
    [shape |-> <<Min(n, t.shape[1]), t.shape[2], t.shape[3]>>,
     data  |-> SubSeq(t.data, 1, Min(n, t.shape[1]))]

Broadcastable(a, b) == a = b \/ a = 1 \/ b = 1
BDim(a, b) == IF a = 1 THEN b ELSE a
Ix(i, n)   == IF n = 1 THEN 1 ELSE i

CanAdd(s, t) == \A i \in 1..3 : Broadcastable(s.shape[i], t.shape[i])

Plus(a, b) == [fn |-> "add", a |-> a, b |-> b]

\* s + t of two 3-D tensors, with broadcasting
Add(s, t) ==
    LET sh == [i \in 1..3 |-> BDim(s.shape[i], t.shape[i])]
    IN  [shape |-> sh,
         data  |-> [i \in 1..sh[1] |-> [j \in 1..sh[2] |-> [k \in 1..sh[3] |->
                      Plus(s.data[Ix(i, s.shape[1])][Ix(j, s.shape[2])][Ix(k, s.shape[3])],
                           t.data[Ix(i, t.shape[1])][Ix(j, t.shape[2])][Ix(k, t.shape[3])])]]]]

\* PositionalEncoding.forward(x) on the buffer b: x + self.pe[:x.size(0), :]
PEForward(b, t) ==
    IF CanAdd(t, Slice0(b, t.shape[1])) THEN Return(Add(t, Slice0(b, t.shape[1])))
    ELSE Raise("RuntimeError")

\* forward written as an in-place add into the buffer (self.pe[:n] += x): the
\* buffer afterwards
BufferAddedInPlace(b, t) ==
    IF CanAdd(t, Slice0(b, t.shape[1])) /\ t.shape[2] = 1 /\ t.shape[3] = b.shape[3]
    THEN [shape |-> b.shape,
          data  |-> [i \in 1..b.shape[1] |->
                       IF i <= t.shape[1]
                       THEN Add(Slice0(b, t.shape[1]), t).data[Ix(i, Min(t.shape[1], b.shape[1]))]
                       ELSE b.data[i]]]
    ELSE b

\* the buffer after PositionalEncoding.forward(x): the call assigns nothing
BufferAfterForward(b, t) == b

\* the argument after PositionalEncoding.forward(x): x + ... builds a new tensor
ArgumentAfterForward(b, t) == t

----------------------------------------------------------------------------
(* TransformerModel.forward *)

\* src = torch.randint(0, ntokens, (S, B)): one token tensor of that shape
SrcTensor(S, B, nt) ==
    [shape |-> <<S, B>>, data |-> [p \in 1..S |-> [b \in 1..B |-> (p + b) % nt]]]

\* a mask that disallows every pair
SrcMaskOnes(n) ==
    [shape |-> <<n, n>>, data |-> [i \in 1..n |-> [j \in 1..n |-> TRUE]]]

\* src_mask = torch.zeros((n, n)).type(torch.bool): no pair is disallowed
SrcMask(n) ==
    [shape |-> <<n, n>>, data |-> [i \in 1..n |-> [j \in 1..n |-> FALSE]]]

\* self.encoder(src) * math.sqrt(self.d_model): row src[p, b] of the embedding
\* weight (as of parameter value w), scaled
EmbedScale(toks, d, w) ==
    [shape |-> <<toks.shape[1], toks.shape[2], d>>,
     data  |-> [p \in 1..toks.shape[1] |-> [b \in 1..toks.shape[2] |-> [k \in 1..d |->
                  [fn |-> "emb", tok |-> toks.data[p][b], k |-> k - 1, w |-> w,
                   scale |-> d]]]]]

\* self.transformer_encoder(src, src_mask): the library's encoder stack.  It
\* needs a mask of shape (S, S) and keeps the shape of its input; its value
\* depends on the input, the mask, the parameters and, in training mode, the
\* dropout masks drawn.
Encoder(t, m, w, drop) ==
    IF m.shape = <<t.shape[1], t.shape[1]>>
    THEN Return([shape |-> t.shape,
                 data  |-> [fn |-> "encoder", in |-> t.data, mask |-> m.data,
                            w |-> w, drop |-> drop]])
    ELSE Raise("RuntimeError")

\* a decoder built as nn.Linear(d_model, d_model)
DecoderSquare(t, d, nt, w) ==
    IF t.shape[3] = d
    THEN Return([shape |-> <<t.shape[1], t.shape[2], d>>,
                 data  |-> [fn |-> "linear", in |-> t.data, w |-> w]])
    ELSE Raise("RuntimeError")

\* self.decoder(output), self.decoder = nn.Linear(d_model, ntoken)
Decoder(t, d, nt, w) ==
    IF t.shape[3] = d
    THEN Return([shape |-> <<t.shape[1], t.shape[2], nt>>,
                 data  |-> [fn |-> "linear", in |-> t.data, w |-> w]])
    ELSE Raise("RuntimeError")

\* TransformerModel.forward(src, src_mask) with buffer b, parameters w and
\* dropout draw drop: the argument and result of the pos_encoder call, and the
\* result of the whole call
TransformerForward(toks, m, b, d, nt, w, drop) ==
    LET e   == EmbedScale(toks, d, w)
        p   == PEForward(b, e)
        enc == Encoder(p.val, m, w, drop)
        dec == Decoder(enc.val, d, nt, w)
    IN  [src |-> toks, mask |-> m, w |-> w, drop |-> drop,
         x |-> e, y |-> p,
         shapes |-> <<e.shape, p.val.shape, IF p.ok THEN enc.val.shape ELSE <<>> >>,
         out |-> IF ~p.ok THEN p ELSE IF ~enc.ok THEN enc ELSE dec]

\* what the model keeps of a call: the arguments, the parameter value and the
\* dropout draw it was made with, the shape after each stage, and the result
CallRecord(r) ==
    [src |-> r.src, mask |-> r.mask, w |-> r.w, drop |-> r.drop,
     shapes |-> r.shapes, out |-> r.out]

\* the dropout masks a forward pass in training mode can draw: the one the
\* first call drew ("m0") or any other one ("m1")
DropoutMasks == {"m0", "m1"}

Dropout(draw) == IF training THEN draw ELSE "off"

----------------------------------------------------------------------------
(* The modules called directly: construction, then any number of forward calls *)

\* an arbitrary tensor of shape (S, B, D): entry (p, b, k) is the unknown X_v[p,b,k]
XTensor(S, B, D, v) ==
    [shape |-> <<S, B, D>>,
     data  |-> [p \in 1..S |-> [b \in 1..B |-> [k \in 1..D |->
                  [fn |-> "x", v |-> v, at |-> <<p - 1, b - 1, k - 1>>]]]]]

TrainIdle ==
    /\ src = NoTensor /\ src_mask = NoTensor
    /\ training = TRUE /\ params = 0 /\ grads = "none" /\ epoch = 0 /\ batch = 0
    /\ loss = None /\ printed = <<>> /\ steps = 0 /\ trace = <<>>
    /\ first = None /\ peFirst = None

NoMatrix == [shape |-> <<0, 0>>, data |-> <<>>]

AttnIdle ==
    /\ Q = NoMatrix /\ K = NoMatrix /\ V = NoMatrix /\ mask = NoMatrix
    /\ fill = "neg_inf" /\ weights = NoMatrix /\ attn = NoMatrix

Init ==
    /\ pc = "new"
    /\ d_model \in -1..MaxDModel
    /\ max_len \in -1..MaxLen
    /\ ntoken \in 1..MaxTok
    /\ pe = NoTensor /\ err = "none"
    /\ x = NoTensor /\ y = NoTensor /\ call = None /\ output = NoTensor
    /\ TrainIdle /\ AttnIdle

\* pos_encoder = PositionalEncoding(d_model, max_len)
Construct ==
    /\ pc = "new"
    /\ LET r == PositionalEncodingInit(d_model, max_len)
       IN  /\ pc' = IF r.ok THEN "ready" ELSE "failed"
           /\ pe' = r.val
           /\ err' = r.err
    /\ UNCHANGED <<d_model, max_len, ntoken, x, y, call, output, trainVars, attnVars>>

\* pos_encoder(x) for a tensor x of shape (S, B, d_model)
CallPEForward ==
    /\ pc = "ready"
    /\ \E S \in 0..MaxSeq, B \in 1..MaxBatch, v \in 0..1 :
         LET t == XTensor(S, B, d_model, v)
             r == PEForward(pe, t)
         IN  /\ x' = ArgumentAfterForward(pe, t)
             /\ y' = r.val
             /\ err' = r.err
             /\ pe' = BufferAfterForward(pe, t)
    /\ call' = None
    /\ UNCHANGED <<pc, d_model, max_len, ntoken, output, trainVars, attnVars>>

\* model(src, src_mask) for src of shape (S, B) and a mask of shape (n, n)
CallModelForward ==
    /\ pc = "ready"
    /\ \E S \in 1..MaxSeq, B \in 1..MaxBatch, n \in 1..MaxSeq, draw \in DropoutMasks :
         LET toks == SrcTensor(S, B, ntoken)
             r    == TransformerForward(toks, SrcMask(n), pe, d_model, ntoken, params,
                                        Dropout(draw))
         IN  /\ x' = ArgumentAfterForward(pe, r.x)
             /\ y' = r.y.val
             /\ call' = CallRecord(r)
             /\ err' = r.out.err
             /\ pe' = BufferAfterForward(pe, r.x)
    /\ UNCHANGED <<pc, d_model, max_len, ntoken, output, trainVars, attnVars>>

Next == Construct \/ CallPEForward \/ CallModelForward

Spec == Init /\ [][Next]_vars

----------------------------------------------------------------------------
(* The notebook: model creation, one forward pass, then the training loop *)

\* for epoch in range(10)
NumEpochs == 10
\* for batch in range(100)
NumBatches == 100

\* model.parameters() with the table registered as an nn.Parameter
ModelParametersWithPE ==
    {"encoder.weight", "transformer_encoder", "decoder.weight", "decoder.bias",
     "pos_encoder.pe"}

\* model.parameters(): the registered parameters; the table is a buffer
\* (register_buffer) and is not among them
ModelParameters ==
    {"encoder.weight", "transformer_encoder", "decoder.weight", "decoder.bias"}

\* a tensor after one Adam update
AdamUpdate(t) ==
    [shape |-> t.shape,
     data  |-> [i \in 1..t.shape[1] |-> [j \in 1..t.shape[2] |-> [k \in 1..t.shape[3] |->
                  [fn |-> "adam", of |-> t.data[i][j][k]]]]]]

\* an inner loop that runs once more than range(100)
BatchLoopOffByOne == batch <= NumBatches

\* the inner loop has another iteration
BatchLoopContinues == batch < NumBatches

\* the outer loop has another iteration
EpochLoopContinues == epoch < NumEpochs

\* criterion(output.view(-1, ntokens), src.view(-1)): the loss of the forward
\* pass of iteration (e, b), made with parameters w
Criterion(e, b, w) == [fn |-> "CrossEntropyLoss", epoch |-> e, batch |-> b, w |-> w]

Line(kind, e, val) == [kind |-> kind, epoch |-> e, val |-> val]

\* the notebook's hyperparameters and inputs, at sizes within the bounds: the
\* table has MaxLen rows (for the default 5000) and src is one row shorter
TrainInit ==
    /\ pc = "new"
    /\ d_model \in {d \in 1..MaxDModel : d % 2 = 0}
    /\ max_len = MaxLen
    /\ ntoken = MaxTok
    /\ pe = NoTensor /\ err = "none"
    /\ x = NoTensor /\ y = NoTensor /\ call = None /\ output = NoTensor
    /\ \E B \in 1..MaxBatch :
         /\ src = SrcTensor(MaxLen - 1, B, MaxTok)
         /\ src_mask = SrcMask(MaxLen - 1)
    /\ training = TRUE /\ params = 0 /\ grads = "none" /\ epoch = 0 /\ batch = 0
    /\ loss = None /\ printed = <<>> /\ steps = 0 /\ trace = <<>>
    /\ first = None /\ peFirst = None
    /\ AttnIdle

\* model = TransformerModel(ntokens, emsize, nhead, nhid, nlayers, dropout)
CreateModel ==
    /\ pc = "new"
    /\ LET r == PositionalEncodingInit(d_model, max_len)
       IN  /\ pc' = IF r.ok THEN "forward0" ELSE "failed"
           /\ pe' = r.val
           /\ err' = r.err
    /\ training' = TRUE
    /\ params' = 0
    /\ UNCHANGED <<d_model, max_len, ntoken, x, y, call, output, src, src_mask, grads,
                   epoch, batch, loss, printed, steps, trace, first, peFirst, attnVars>>

\* model(src, src_mask) as the loop and the first cell call it: in training
\* mode a dropout mask is drawn
ModelCall(next) ==
    \E draw \in (IF first = None THEN {"m0"} ELSE DropoutMasks) :
      LET r == TransformerForward(src, src_mask, pe, d_model, ntoken, params,
                                  Dropout(draw))
      IN  /\ call' = CallRecord(r)
          /\ x' = ArgumentAfterForward(pe, r.x)
          /\ y' = r.y.val
          /\ err' = r.out.err
          /\ output' = IF r.out.ok THEN r.out.val ELSE output
          /\ pe' = BufferAfterForward(pe, r.x)
          /\ first' = IF first = None THEN CallRecord(r) ELSE first
          /\ peFirst' = IF peFirst = None THEN [x |-> r.x, y |-> r.y.val] ELSE peFirst
          /\ pc' = IF r.out.ok THEN next ELSE "failed"

\* output = model(src, src_mask); print(output.shape)
FirstForward ==
    /\ pc = "forward0"
    /\ ModelCall("optimizer")
    /\ printed' = IF pc' = "failed" THEN printed
                  ELSE Append(printed, Line("shape", 0, output'.shape))
    /\ UNCHANGED <<d_model, max_len, ntoken, src, src_mask, training, params, grads,
                   epoch, batch, loss, steps, trace, attnVars>>

\* criterion = nn.CrossEntropyLoss(); optimizer = optim.Adam(model.parameters())
MakeOptimizer ==
    /\ pc = "optimizer"
    /\ pc' = "epoch_loop"
    /\ epoch' = 0
    /\ UNCHANGED <<d_model, max_len, ntoken, pe, err, x, y, call, output, src, src_mask,
                   training, params, grads, batch, loss, printed, steps, trace, first,
                   peFirst, attnVars>>

\* for epoch in range(10): model.train()
TrainMode ==
    /\ pc = "epoch_loop"
    /\ EpochLoopContinues
    /\ training' = TRUE
    /\ batch' = 0
    /\ pc' = "batch_loop"
    /\ UNCHANGED <<d_model, max_len, ntoken, pe, err, x, y, call, output, src, src_mask,
                   params, grads, epoch, loss, printed, steps, trace, first, peFirst,
                   attnVars>>

\* the outer loop is exhausted
Finish ==
    /\ pc = "epoch_loop"
    /\ ~EpochLoopContinues
    /\ pc' = "done"
    /\ UNCHANGED <<d_model, max_len, ntoken, pe, err, x, y, call, output, trainVars,
                   attnVars>>

\* for batch in range(100): optimizer.zero_grad()
ZeroGrad ==
    /\ pc = "batch_loop"
    /\ BatchLoopContinues
    /\ grads' = "none"
    /\ trace' = <<"zero_grad">>
    /\ pc' = "forward"
    /\ UNCHANGED <<d_model, max_len, ntoken, pe, err, x, y, call, output, src, src_mask,
                   training, params, epoch, batch, loss, printed, steps, first, peFirst,
                   attnVars>>

\* output = model(src, src_mask)
Forward ==
    /\ pc = "forward"
    /\ ModelCall("loss")
    /\ trace' = Append(trace, "forward")
    /\ UNCHANGED <<d_model, max_len, ntoken, src, src_mask, training, params, grads,
                   epoch, batch, loss, printed, steps, attnVars>>

\* loss = criterion(output.view(-1, ntokens), src.view(-1))
ComputeLoss ==
    /\ pc = "loss"
    /\ loss' = Criterion(epoch, batch, call.w)
    /\ trace' = Append(trace, "loss")
    /\ pc' = "backward"
    /\ UNCHANGED <<d_model, max_len, ntoken, pe, err, x, y, call, output, src, src_mask,
                   training, params, grads, epoch, batch, printed, steps, first, peFirst,
                   attnVars>>

\* loss.backward()
Backward ==
    /\ pc = "backward"
    /\ grads' = "set"
    /\ trace' = Append(trace, "backward")
    /\ pc' = "step"
    /\ UNCHANGED <<d_model, max_len, ntoken, pe, err, x, y, call, output, src, src_mask,
                   training, params, epoch, batch, loss, printed, steps, first, peFirst,
                   attnVars>>

\* optimizer.step(): every tensor of model.parameters() that has a gradient is
\* updated; then the inner loop advances
OptimizerStep ==
    /\ pc = "step"
    /\ params' = IF grads = "set" THEN params + 1 ELSE params
    /\ pe' = IF grads = "set" /\ "pos_encoder.pe" \in ModelParameters
             THEN AdamUpdate(pe) ELSE pe
    /\ steps' = steps + 1
    /\ trace' = Append(trace, "step")
    /\ batch' = batch + 1
    /\ pc' = "batch_loop"
    /\ UNCHANGED <<d_model, max_len, ntoken, err, x, y, call, output, src, src_mask,
                   training, grads, epoch, loss, printed, first, peFirst, attnVars>>

\* the inner loop is exhausted: print(f'Epoch {epoch+1}, Loss: {loss.item()}')
PrintLoss ==
    /\ pc = "batch_loop"
    /\ ~BatchLoopContinues
    /\ printed' = Append(printed, Line("loss", epoch + 1, loss))
    /\ epoch' = epoch + 1
    /\ pc' = "epoch_loop"
    /\ UNCHANGED <<d_model, max_len, ntoken, pe, err, x, y, call, output, src, src_mask,
                   training, params, grads, batch, loss, steps, trace, first, peFirst,
                   attnVars>>

TrainNext ==
    \/ CreateModel \/ FirstForward \/ MakeOptimizer \/ TrainMode \/ Finish
    \/ ZeroGrad \/ Forward \/ ComputeLoss \/ Backward \/ OptimizerStep \/ PrintLoss

TrainSpec == TrainInit /\ [][TrainNext]_vars

\* one run of the notebook: a batch of one sequence, d_model = 2
FairTrainInit == TrainInit /\ d_model = 2 /\ src.shape[2] = 1

\* the notebook's cells run to completion: no step is postponed forever
FairTrainSpec == FairTrainInit /\ [][TrainNext]_vars /\ WF_vars(TrainNext)

----------------------------------------------------------------------------
(* Properties of the positional encoding and of the forward pass *)

ValidDims   == d_model > 0 /\ d_model % 2 = 0 /\ max_len > 0
InvalidDims == d_model % 2 = 1 \/ d_model <= 0 \/ max_len <= 0

\* sin(p / 10000^(k/d)) and cos(p / 10000^(k/d)) as terms
SinOf(p, k, d) == [fn |-> "sin", pos |-> p, k |-> k, d |-> d, cls |-> "finite"]
CosOf(p, k, d) == [fn |-> "cos", pos |-> p, k |-> k, d |-> d, cls |-> "finite"]

\* table[p, c] as section 4.1 of the specification gives it (p, c from 0)
TableEntry(p, c) ==
    IF c % 2 = 0 THEN SinOf(p, c, d_model) ELSE CosOf(p, c - 1, d_model)

\* C2: for even positive model_dimension and positive max_length, construction
\* succeeds and row p of the table holds sin(p / 10000^(2i/d)) in column 2i and
\* cos of the same angle in column 2i+1, for every p and every pair index i; no
\* column keeps its initial zero.
C2_SinCosPairs ==
    (pc # "new" /\ ValidDims) =>
        /\ pc = "ready"
        /\ pe.shape = <<max_len, 1, d_model>>
        /\ \A p \in 0..(max_len - 1), i \in 0..((d_model \div 2) - 1) :
              /\ pe.data[p + 1][1][2 * i + 1] = SinOf(p, 2 * i, d_model)
              /\ pe.data[p + 1][1][2 * i + 2] = CosOf(p, 2 * i, d_model)

C2_Witness == pc = "ready" /\ ValidDims /\ d_model >= 4 /\ max_len >= 2

\* C3: for valid dimensions every entry of the table is finite (no NaN, no Inf)
\* and row 0 is 0, 1, 0, 1, ...: 0 in every even column, 1 in every odd column.
C3_FiniteAndRowZero ==
    (pc # "new" /\ ValidDims) =>
        /\ pc = "ready"
        /\ \A p \in 1..pe.shape[1], j \in 1..pe.shape[2], c \in 1..pe.shape[3] :
              pe.data[p][j][c].cls = "finite"
        /\ pe.shape[1] >= 1 /\ pe.shape[2] = 1 /\ pe.shape[3] = d_model
        /\ \A c \in 0..(d_model - 1) :
              Value(pe.data[1][1][c + 1]) = (IF c % 2 = 0 THEN 0 ELSE 1)

C3_Witness == pc = "ready" /\ ValidDims /\ d_model = 4 /\ max_len = 1

\* C4: construction with an odd or non-positive model_dimension, or a
\* non-positive max_length, fails and leaves no table.
C4_InvalidDimsRejected ==
    (pc # "new" /\ InvalidDims) => (pc = "failed" /\ pe = NoTensor)

\* C8: TransformerModel.forward(src, src_mask) with src of shape (S, B),
\* S <= max_len, and a mask of shape (S, S) returns a tensor of shape
\* (S, B, ntoken); the embedding, the positional encoding and the encoder
\* stack give (S, B, d_model).
C8_ForwardShape ==
    (call # None /\ call.src.shape[1] <= max_len
                 /\ call.mask.shape = <<call.src.shape[1], call.src.shape[1]>>) =>
        /\ call.out.ok
        /\ call.out.val.shape = call.src.shape \o <<ntoken>>
        /\ \A i \in 1..3 : call.shapes[i] = call.src.shape \o <<d_model>>

C8_Witness ==
    /\ call # None /\ call.src.shape = <<2, 2>> /\ call.mask.shape = <<2, 2>>
    /\ max_len >= 2 /\ ntoken # d_model /\ call.out.val.shape = <<2, 2, ntoken>>

\* C9: PositionalEncoding.forward(x) for x of shape (S, B, d_model), S <= max_len,
\* returns a tensor of the shape of x whose entry (p, b, k) is x[p, b, k] +
\* table[p, k]; the call leaves the table as construction made it, and the
\* entries of x as they were passed.
C9_ForwardAddsRow ==
    (pc = "ready" /\ x # NoTensor /\ x.shape[1] <= max_len) =>
        /\ y.shape = x.shape
        /\ \A p \in 1..x.shape[1], b \in 1..x.shape[2], k \in 1..x.shape[3] :
              /\ y.data[p][b][k] = Plus(x.data[p][b][k], TableEntry(p - 1, k - 1))
              /\ x.data[p][b][k].fn \in {"x", "emb"}
        /\ pe = PositionalEncodingInit(d_model, max_len).val

C9_Witness ==
    /\ pc = "ready" /\ x # NoTensor /\ x.shape = <<2, 2, d_model>> /\ max_len = 3
    /\ d_model = 2 /\ y.data[2][2][1] = Plus(x.data[2][2][1], SinOf(1, 0, 2))
    /\ x.data[2][2][1].fn = "x"

----------------------------------------------------------------------------
(* scaled_dot_product_attention(Q, K, V, mask), the computation the encoder   *)
(* layers delegate to the library, as section 4.1 of the specification gives  *)
(* it.  A score is dot / sqrt(d_k), kept as its integer numerator dot; a      *)
(* masked score is -inf or a large negative sentinel; exp is symbolic.        *)

Fin(v)   == [t |-> "fin", v |-> v]
NegInf   == [t |-> "neg_inf", v |-> 0]
Sentinel == [t |-> "sentinel", v |-> 0]
NaN      == [t |-> "nan", v |-> 0]
Zero     == [t |-> "zero", v |-> 0]

RECURSIVE Dot(_, _, _)
\* the dot product of the first n entries of two rows
Dot(a, b, n) == IF n = 0 THEN 0 ELSE a[n] * b[n] + Dot(a, b, n - 1)

\* scores = Q K^T / sqrt(d_k)
Scores(q, k) ==
    [i \in 1..q.shape[1] |-> [j \in 1..k.shape[1] |->
        Fin(Dot(q.data[i], k.data[j], q.shape[2]))]]

\* masked entries are set to negative infinity, or to the sentinel
MaskFill(sc, m, f) ==
    [i \in 1..Len(sc) |-> [j \in 1..Len(sc[i]) |->
        IF m.data[i][j] THEN (IF f = "neg_inf" THEN NegInf ELSE Sentinel) ELSE sc[i][j]]]

\* the largest score of a row
RowMax(row) ==
    IF \E j \in 1..Len(row) : row[j].t = "fin"
    THEN CHOOSE s \in {row[j] : j \in 1..Len(row)} :
           /\ s.t = "fin"
           /\ \A j \in 1..Len(row) : row[j].t = "fin" => row[j].v <= s.v
    ELSE row[1]

\* s - mx: -inf - (-inf) is NaN; the sentinel below a finite maximum is too
\* negative for exp to see
Minus(s, mx) ==
    IF s.t = "fin" THEN Fin(s.v - mx.v)
    ELSE IF mx.t = "fin" THEN NegInf
    ELSE IF s.t = "sentinel" THEN Fin(0)
    ELSE NaN

\* exp: exp(-inf) = 0 exactly, exp(NaN) = NaN, exp(d) > 0 for finite d
Exp(a) ==
    IF a.t = "fin" THEN [t |-> "exp", v |-> a.v]
    ELSE IF a.t = "neg_inf" THEN Zero
    ELSE NaN

\* softmax of one row, the row maximum subtracted first: entry j is the ratio of
\* e[j] to the sum of the e[k]
Softmax(row) ==
    LET e == [j \in 1..Len(row) |-> Exp(Minus(row[j], RowMax(row)))]
    IN  [j \in 1..Len(row) |-> [num |-> e[j], den |-> e]]

\* weights V: entry (i, c) is the sum over j of weights[i][j] * V[j][c]
WeightedSum(w, v) ==
    [i \in 1..Len(w) |-> [c \in 1..v.shape[2] |->
        [j \in 1..Len(w[i]) |-> <<w[i][j], v.data[j][c]>>]]]

\* scaled_dot_product_attention(Q, K, V, mask): (output, weights), or the error
Attention(q, k, v, m, f) ==
    IF q.shape[2] # k.shape[2] \/ m.shape # <<q.shape[1], k.shape[1]>>
    THEN [err |-> "ShapeMismatch", weights |-> NoMatrix, output |-> NoMatrix]
    ELSE IF q.shape[2] = 0
    THEN [err |-> "InvalidDimension", weights |-> NoMatrix, output |-> NoMatrix]
    ELSE LET sc == MaskFill(Scores(q, k), m, f)
             w  == [i \in 1..Len(sc) |-> Softmax(sc[i])]
         IN  [err |-> "none",
              weights |-> [shape |-> m.shape, data |-> w],
              output  |-> [shape |-> <<q.shape[1], v.shape[2]>>,
                           data  |-> WeightedSum(w, v)]]

Matrices(n, m, S) == {[shape |-> <<n, m>>, data |-> d] : d \in [1..n -> [1..m -> S]]}

\* the key matrix explored for m keys of width d
KeyMatrix(m, d) ==
    [shape |-> <<m, d>>, data |-> [j \in 1..m |-> [c \in 1..d |-> (j + c) % 2]]]

\* an arbitrary value matrix of m rows and one column
ValueMatrix(m) ==
    [shape |-> <<m, 1>>, data |-> [j \in 1..m |-> <<[fn |-> "v", at |-> j - 1]>>]]

\* the masks explored for n queries and m keys: every boolean matrix, with the
\* notebook's src_mask among them when n = m
Masks(n, m) ==
    Matrices(n, m, BOOLEAN) \cup (IF n = m THEN {SrcMask(n)} ELSE {})

AttnInit ==
    /\ pc = "new"
    /\ d_model = 0 /\ max_len = 0 /\ ntoken = 0
    /\ pe = NoTensor /\ err = "none"
    /\ x = NoTensor /\ y = NoTensor /\ call = None /\ output = NoTensor
    /\ TrainIdle
    /\ \E n \in 1..MaxRows, m \in 1..MaxCols, d \in 0..MaxDk, kd \in 0..1 :
         /\ Q \in Matrices(n, d, 0..1)
         /\ K = KeyMatrix(m, d + kd)
         /\ V = ValueMatrix(m)
         /\ mask \in Masks(n, m)
    /\ fill \in {"neg_inf", "sentinel"}
    /\ weights = NoMatrix /\ attn = NoMatrix

\* output, weights = scaled_dot_product_attention(Q, K, V, mask)
Attend ==
    /\ pc = "new"
    /\ LET r == Attention(Q, K, V, mask, fill)
       IN  /\ err' = r.err
           /\ weights' = r.weights
           /\ attn' = r.output
           /\ pc' = IF r.err = "none" THEN "attended" ELSE "failed"
    /\ UNCHANGED <<d_model, max_len, ntoken, pe, x, y, call, output, trainVars,
                   Q, K, V, mask, fill>>

AttnNext == Attend

AttnSpec == AttnInit /\ [][AttnNext]_vars

\* a weight is exactly 0: its numerator is 0 and its denominator a positive number
DenPositive(w) ==
    /\ \A k \in 1..Len(w.den) : w.den[k].t # "nan"
    /\ \E k \in 1..Len(w.den) : w.den[k].t = "exp"
IsZero(w)     == w.num.t = "zero" /\ DenPositive(w)
IsPositive(w) == w.num.t = "exp" /\ DenPositive(w)

\* a row sums to 1 with every entry in [0, 1]: the entries are the terms of one
\* positive sum, each divided by that sum
RowStochastic(row) ==
    /\ \A j \in 1..Len(row) : DenPositive(row[j]) /\ row[j].den = row[1].den
    /\ [j \in 1..Len(row) |-> row[j].num] = row[1].den

FullyMasked(i) == \A j \in 1..mask.shape[2] : mask.data[i][j]

\* C6 as stated: the weight of every masked position is exactly 0, for every
\* mask, a fully masked row included.
C6_MaskedWeightZero ==
    (pc = "attended") =>
        \A i \in 1..mask.shape[1], j \in 1..mask.shape[2] :
            mask.data[i][j] => IsZero(weights.data[i][j])

\* C6 amended: the weight of every masked position is exactly 0 in every row
\* that has an unmasked position; with the notebook's mask (src_mask, all
\* false) every weight is positive, none is forced to 0.
C6_MaskedWeightZeroUnlessRowMasked ==
    (pc = "attended") =>
        /\ \A i \in 1..mask.shape[1], j \in 1..mask.shape[2] :
              (mask.data[i][j] /\ ~FullyMasked(i)) => IsZero(weights.data[i][j])
        /\ (mask.shape[1] = mask.shape[2] /\ mask = SrcMask(mask.shape[1])) =>
              \A i \in 1..mask.shape[1], j \in 1..mask.shape[2] :
                  IsPositive(weights.data[i][j])

C6_Witness ==
    /\ pc = "attended" /\ mask.shape = <<2, 2>>
    /\ mask.data[1][1] /\ ~mask.data[1][2] /\ IsZero(weights.data[1][1])
    /\ FullyMasked(2) /\ ~IsZero(weights.data[2][1])

\* C7 as stated: every row of the weight matrix sums to 1 with entries in
\* [0, 1], for every mask, a fully masked row included.
C7_RowsSumToOne ==
    (pc = "attended") =>
        \A i \in 1..mask.shape[1] : RowStochastic(weights.data[i])

\* C7 amended: every row that has an unmasked position sums to 1 with entries
\* in [0, 1]; so does every row under the notebook's mask.
C7_RowsSumToOneUnlessRowMasked ==
    (pc = "attended") =>
        /\ \A i \in 1..mask.shape[1] :
              ~FullyMasked(i) => RowStochastic(weights.data[i])
        /\ (mask.shape[1] = mask.shape[2] /\ mask = SrcMask(mask.shape[1])) =>
              \A i \in 1..mask.shape[1] : RowStochastic(weights.data[i])

C7_Witness ==
    /\ pc = "attended" /\ mask.shape = <<2, 2>> /\ fill = "neg_inf"
    /\ mask.data[1][1] /\ ~mask.data[1][2] /\ RowStochastic(weights.data[1])
    /\ FullyMasked(2) /\ ~RowStochastic(weights.data[2])

----------------------------------------------------------------------------
(* Properties of the training run *)

\* C1: the table is computed once, at construction; after any forward calls and
\* training steps every entry still has the value construction gave it, which
\* is a function of (d_model, max_len) alone.
C1_TableImmutable ==
    (pc # "new") => pe = PositionalEncodingInit(d_model, max_len).val

C1_Witness ==
    /\ pc = "done" /\ steps = 1000 /\ params = 1000
    /\ pe.shape = <<max_len, 1, d_model>> /\ max_len >= 2

SameArguments == call # None /\ first # None /\ call.src = first.src /\ call.mask = first.mask

\* PositionalEncoding.forward returns for the argument of its first call what it
\* returned then
PEForwardRepeats == (peFirst # None /\ x = peFirst.x) => y = peFirst.y

\* C5 as stated: every operation is referentially transparent; in particular
\* every TransformerModel.forward(src, src_mask) call returns what the first
\* call with these arguments returned, whatever happened in between.
C5_SameInputsSameOutput ==
    /\ PEForwardRepeats
    /\ SameArguments => call.out = first.out

\* C5 amended: PositionalEncoding.forward is referentially transparent;
\* TransformerModel.forward returns the same output for the same (src, src_mask)
\* whenever the parameters and the dropout draw are the same too.
C5_SameInputsStateAndDraw ==
    /\ PEForwardRepeats
    /\ (SameArguments /\ call.w = first.w /\ call.drop = first.drop) =>
           call.out = first.out

C5_Witness ==
    /\ pc = "loss" /\ steps = 0 /\ SameArguments
    /\ x = peFirst.x /\ y = peFirst.y /\ y # NoTensor
    /\ call.w = first.w /\ call.drop # first.drop /\ call.out # first.out

Ops == <<"zero_grad", "forward", "loss", "backward", "step">>

LossLines == SelectSeq(printed, LAMBDA l : l.kind = "loss")

InLoop == pc \in {"batch_loop", "forward", "loss", "backward", "step"}

TrainingOrder ==
    /\ \E n \in 0..5 : trace = SubSeq(Ops, 1, n)
    /\ (pc = "forward") => (trace = SubSeq(Ops, 1, 1) /\ grads = "none")
    /\ (pc = "step") => (trace = SubSeq(Ops, 1, 4) /\ grads = "set")
    /\ InLoop => (epoch < 10 /\ batch <= 100 /\ steps = 100 * epoch + batch)
    /\ (pc = "epoch_loop") => steps = 100 * epoch
    /\ Len(LossLines) = epoch
    /\ \A i \in 1..Len(LossLines) :
          LossLines[i] = Line("loss", i, Criterion(i - 1, 99, 100 * (i - 1) + 99))
    /\ (pc = "done") => (steps = 1000 /\ epoch = 10 /\ params = 1000)

\* C10: the training loop terminates, after exactly 10 epochs of 100 batches
\* (1000 optimizer.step() calls); every iteration runs zero_grad, forward, loss,
\* backward, step in this order; the loss is printed once per epoch, after the
\* epoch's 100th step, for epochs 1 to 10 in order, and it is the loss of the
\* epoch's last batch.
C10_TrainingLoop == [](TrainingOrder) /\ <>(pc = "done")

C10_Witness ==
    /\ pc = "done" /\ steps = 1000 /\ Len(LossLines) = 10 /\ Len(printed) = 11
    /\ LossLines[10].val = loss /\ trace = Ops

====
